---------------------------- MODULE Spec2Model ----------------------------
(***************************************************************************)
(* The test-execution engine of test.py: process_handler's escalating      *)
(* termination, BaseTest.make / execute / diff / mem_check,                *)
(* CodegenTest.execute / execute_class, the per-case loop of BaseTest.test *)
(* and the suite report; the case list of parse_args and test_runner; the  *)
(* SIGINT handler.                                                         *)
(*                                                                         *)
(* The harness is single threaded.  pc is its position; every blocking     *)
(* wait on a child is a state, and the code that runs between two waits is *)
(* one action.  The children are the environment: how a child ends (exit   *)
(* code, what it left in its output files, whether it outlives the         *)
(* timeout, whether it dies of SIGTERM or SIGKILL) is chosen with \E.      *)
(***************************************************************************)
EXTENDS Integers, Sequences, FiniteSets, TLC

(***************************************************************************)
(* Bounds of the model.                                                    *)
(***************************************************************************)
\* longest case list given to the suite
MaxCases == 2

\* the fixture cases of the module directory: two identifiers, so that a case
\* list can be out of order and can name a case twice
CaseIds == {1, 2}

\* largest number written in a range argument "a..b"
MaxArg == 10

\* largest number of entries os.listdir returns
MaxListing == 3

RECURSIVE SeqsUpTo(_, _)
SeqsUpTo(S, n) ==
    IF n = 0 THEN {<<>>}
    ELSE LET shorter == SeqsUpTo(S, n - 1)
         IN  shorter \cup {Append(s, x) : s \in {t \in shorter : Len(t) = n - 1}, x \in S}

(***************************************************************************)
(* Program constants.                                                      *)
(***************************************************************************)
\* TESTS: module name -> test class.  HashtableTest and SymboltableTest are
\* RedirectionBaseTest: their execute and mem_check pass the fixture on stdin
\* instead of as an argument and are otherwise those of BaseTest.
Modules == {"scanner", "parser", "hashtable", "symboltable", "typechecking", "codegen"}

TESTS(m) ==
    CASE m = "scanner"      -> "ScannerTest"
      [] m = "parser"       -> "ParserTest"
      [] m = "hashtable"    -> "HashtableTest"
      [] m = "symboltable"  -> "SymboltableTest"
      [] m = "typechecking" -> "TypecheckingTest"
      [] m = "codegen"      -> "CodegenTest"

\* the value of --stream after main's normalisation
Streams == {"out", "err", "both"}

\* test_runner: the streams diff() compares
diff_stream(stream, execClass) ==
    (IF stream \in {"out", "both"} THEN <<"out">> ELSE <<>>)
    \o (IF stream \in {"err", "both"} THEN <<"err">> ELSE <<>>)
    \o (IF execClass /\ stream \in {"out", "both"} THEN <<"class.out">> ELSE <<>>)
    \o (IF execClass /\ stream \in {"err", "both"} THEN <<"class.err">> ELSE <<>>)

\* every file name diff() may be asked for
AllStreams == {"out", "err", "class.out", "class.err"}

(***************************************************************************)
(* The case list.  A Python str is the sequence of its characters.         *)
(***************************************************************************)
Digit == <<"0", "1", "2", "3", "4", "5", "6", "7", "8", "9">>

DigitValue(c) == CHOOSE d \in 0..9 : Digit[d + 1] = c

\* int(s) of a string of decimal digits
RECURSIVE int(_)
int(s) ==
    IF Len(s) = 1 THEN DigitValue(s[1])
    ELSE 10 * int(SubSeq(s, 1, Len(s) - 1)) + DigitValue(s[Len(s)])

\* the decimal numeral of n: how a number is written on the command line and
\* in a fixture file name
RECURSIVE str(_)
str(n) == IF n < 10 THEN <<Digit[n + 1]>> ELSE str(n \div 10) \o <<Digit[(n % 10) + 1]>>

\* index of the first occurrence of sub in s, 0 if there is none
find(s, sub) ==
    LET at == {i \in 1..(Len(s) - Len(sub) + 1) : SubSeq(s, i, i + Len(sub) - 1) = sub}
    IN  IF at = {} THEN 0 ELSE CHOOSE i \in at : \A j \in at : i <= j

\* `sub in s`
contains(s, sub) == find(s, sub) # 0

\* s.endswith(suffix)
endswith(s, suffix) ==
    Len(s) >= Len(suffix) /\ SubSeq(s, Len(s) - Len(suffix) + 1, Len(s)) = suffix

\* s.split(sep)
RECURSIVE split(_, _)
split(s, sep) ==
    LET i == find(s, sep)
    IN  IF i = 0 THEN <<s>>
        ELSE <<SubSeq(s, 1, i - 1)>> \o split(SubSeq(s, i + Len(sep), Len(s)), sep)

\* list(range(start, stop))
range(start, stop) == [i \in 1..(stop - start) |-> start + i - 1]

\* list.sort() of a list of integers
RECURSIVE sort(_)
sort(l) ==
    IF Len(l) <= 1 THEN l
    ELSE LET rest == sort(Tail(l))
             k    == Cardinality({i \in 1..Len(rest) : rest[i] < l[1]})
         IN  SubSeq(rest, 1, k) \o <<l[1]>> \o SubSeq(rest, k + 1, Len(rest))

DotDot == <<".", ".">>
Dot    == <<".">>
DotIn  == <<".", "i", "n">>
Class  == <<"c", "l", "a", "s", "s">>

\* faulty variant of cases: the range stops before its end
cases_exclusive(args) ==
    IF Len(args) = 0 THEN <<>>
    ELSE IF contains(args[1], DotDot)
         THEN LET parts == split(args[1], DotDot)
              IN  range(int(parts[1]), int(parts[2]))
         ELSE [i \in 1..Len(args) |-> int(args[i])]

\* parse_args: the list cases made of args['<tests>']
cases(args) ==
    IF Len(args) = 0 THEN <<>>
    ELSE IF contains(args[1], DotDot)
         THEN LET parts == split(args[1], DotDot)
              IN  range(int(parts[1]), int(parts[2]) + 1)
         ELSE [i \in 1..Len(args) |-> int(args[i])]

\* faulty variant of in_file: the second-stage inputs are kept
in_file_any(f) == endswith(f, DotIn)

\* the filter of test_runner: f.endswith('.in') and "class" not in f
in_file(f) == endswith(f, DotIn) /\ ~contains(f, Class)

\* test_runner: the list handed to the test object, discovered from the module
\* directory when no case was given
test_cases(given, dir) ==
    IF Len(given) = 0
    THEN LET in_files == SelectSeq(dir, in_file)
         IN  sort([i \in 1..Len(in_files) |-> int(split(in_files[i], Dot)[1])])
    ELSE given

(***************************************************************************)
(* The environment: exit codes and file contents.                          *)
(***************************************************************************)
\* Popen.returncode of a child that ended by itself: 0, an error code (1 stands
\* for every other positive code), death by signal 1 (-1: Popen reports death by
\* signal n as -n) and, for valgrind, the code it is told to use for a detected
\* fault (--error-exitcode=255)
ExitCodes(kind) == IF kind = "valgrind" THEN {0, 1, 255, -1} ELSE {0, 1, -1}

\* a file of temp/, by how it compares with the golden file of the same name:
\* "absent" (never written), "same" (identical), "differs"
Written == {"same", "differs"}

\* exit code of `diff temp/n.s module/n.s`: 0 identical, 1 different, 2 trouble
\* (a file is missing)
DiffExit(file) ==
    CASE file = "same"    -> 0
      [] file = "differs" -> 1
      [] OTHER            -> 2

VARIABLES
    module,       \* the module under test
    flags,        \* flags dict: "memory-check", "exec-class"
    DIFF_FILES,   \* test.DIFF_FILES as set by test_runner
    test_names,   \* cases of parse_args, test_cases of test_runner, self._test_names
    pc,           \* position of the harness
    idx,          \* number of cases the for loop has taken from test_names
    failed,       \* the list failed of BaseTest.test
    passedLog,    \* the cases logged "<n>: Passed", in order
    perc,         \* <<>> until reported, then <<pass rate in 1/100 %>>
    child,        \* the Popen object process_handler is waiting on
    phase,        \* position inside process_handler
    ret,          \* value process_handler returned
    signals,      \* signals sent to the process group of child, in order
    temp,         \* temp/<case>.<stream>
    di,           \* number of DIFF_FILES entries diff() has handled
    passed,       \* the local passed of diff()
    trace,        \* the child processes spawned for the current case, in order
    error,        \* the uncaught exception that ended the run, or "none"
    clean,        \* no child run of the suite returned -1 from process_handler, no
                  \* java run returned non-zero, no diff returned non-zero, so far
    test_args,    \* args['<tests>']: the case arguments of the command line
    listing,      \* what os.listdir(executable) returns
    build,        \* <<>> until `make <target>` has ended, then <<its returncode>>
    results       \* self._results_dir and what clean() left at that path

vars == <<module, flags, DIFF_FILES, test_names, pc, idx, failed, passedLog, perc,
          child, phase, ret, signals, temp, di, passed, trace, error, clean,
          test_args, listing, build, results>>

config == <<module, flags, DIFF_FILES, test_names, test_args, listing>>

NoChild == [kind |-> "none", alive |-> FALSE, returncode |-> 0, others |-> FALSE]

\* subprocess.Popen(..., preexec_fn=os.setsid): a running child, leader of a new
\* process group; others: some other member of that group is alive
Popen(kind, others) == [kind |-> kind, alive |-> TRUE, returncode |-> 0, others |-> others]

\* an entry of trace
Spawned(kind, stream) ==
    [kind |-> kind, stream |-> stream, done |-> FALSE, ret |-> 0, timedOut |-> FALSE]

Finish(tr, r, to) ==
    [tr EXCEPT ![Len(tr)] = [@ EXCEPT !.done = TRUE, !.ret = r, !.timedOut = to]]

\* results before clean(): results_dir is read by clean() alone and is chosen
\* there.  old: the directory that was at the path before the run is there;
\* top: the files of temp/ are directly under the path; sub: they are under
\* <path>/temp; raised: shutil.move raised
NoResults ==
    [results_dir |-> "", old |-> FALSE, top |-> FALSE, sub |-> FALSE, raised |-> FALSE]

\* temp/ with no captured file
NoTemp == [c \in CaseIds |-> [s \in AllStreams |-> "absent"]]

test == test_names[idx]

class == TESTS(module)

\* the state of a test object that test_runner has just constructed, test()
\* not yet called.  The case list is given on the command line, in any order
\* and with repetitions, or the module directory is empty.
Init ==
    /\ module \in Modules
    /\ flags \in [{"memory-check", "exec-class"} -> BOOLEAN]
    /\ \E stream \in Streams : DIFF_FILES = diff_stream(stream, flags["exec-class"])
    /\ test_args \in SeqsUpTo({str(c) : c \in CaseIds}, MaxCases)
    /\ listing = <<>>
    /\ test_names = test_cases(cases(test_args), listing)
    /\ build = <<>>
    /\ results = NoResults
    /\ pc = "make"
    /\ idx = 0
    /\ failed = <<>>
    /\ passedLog = <<>>
    /\ perc = <<>>
    /\ child = NoChild
    /\ phase = "idle"
    /\ ret = 0
    /\ signals = <<>>
    /\ temp = [c \in CaseIds |-> [s \in AllStreams |-> "absent"]]
    /\ di = 0
    /\ passed = TRUE
    /\ trace = <<>>
    /\ error = "none"
    /\ clean = TRUE


\* `x in list`
InList(x, list) == \E i \in 1..Len(list) : list[i] = x

(***************************************************************************)
(* BaseTest.make: make clean, then make <target>; True iff the target's    *)
(* process returned 0.  Each is spawned and waited for with no timeout.    *)
(***************************************************************************)
MakeCodes == {0, 2}

\* `make clean` has ended; its return code is not read
make_clean ==
    /\ pc = "make"
    /\ \E returncode \in MakeCodes : pc' = "make_target"
    /\ UNCHANGED <<config, build, results, idx, failed, passedLog, perc, child, phase, ret,
                   signals, temp, di, passed, trace, error, clean>>

\* faulty variant of make: the return code of the target is not read either
make_unchecked ==
    /\ pc = "make_target"
    /\ \E returncode \in MakeCodes :
          /\ build' = <<returncode>>
          /\ pc' = "loop"
    /\ UNCHANGED <<config, results, idx, failed, passedLog, perc, child, phase, ret, signals,
                   temp, di, passed, trace, error, clean>>

\* `make <target>` has ended.  On a non-zero return code make() returns False
\* and test() logs "Failed to Make Tester" and returns.
make ==
    /\ pc = "make_target"
    /\ \E returncode \in MakeCodes :
          /\ build' = <<returncode>>
          /\ pc' = IF returncode = 0 THEN "loop" ELSE "build_failed"
    /\ UNCHANGED <<config, results, idx, failed, passedLog, perc, child, phase, ret, signals,
                   temp, di, passed, trace, error, clean>>

(***************************************************************************)
(* BaseTest.test, `for test in self._test_names`, and the Popen of         *)
(* BaseTest.execute / RedirectionBaseTest.execute (CodegenTest.execute     *)
(* starts with super().execute).                                           *)
(***************************************************************************)
execute_spawn ==
    /\ pc = "loop"
    /\ idx < Len(test_names)
    /\ idx' = idx + 1
    /\ \E others \in BOOLEAN : child' = Popen("subject", others)
    /\ phase' = "wait1"
    /\ signals' = <<>>
    /\ trace' = <<Spawned("subject", "")>>
    /\ pc' = "execute"
    /\ UNCHANGED <<config, build, results, failed, passedLog, perc, ret, temp, di, passed, error, clean>>

(***************************************************************************)
(* process_handler.                                                        *)
(***************************************************************************)
InHandler == pc \in {"execute", "execute_class", "mem_check"}

\* BaseTest.TIMEOUT, in seconds: the timeout every caller hands to
\* process_handler
TIMEOUT == 10

\* the longest each process.wait of process_handler blocks, in seconds: the
\* first wait, the wait after SIGTERM and the wait after SIGKILL are all
\* process.wait(timeout=timeout)
wait_timeout(ph) ==
    CASE ph = "wait1" -> TIMEOUT
      [] ph = "wait2" -> TIMEOUT
      [] ph = "wait3" -> TIMEOUT

\* what the child left in the files its stdout and stderr were opened on:
\* <n>.out/<n>.err for the subject, <n>.class.out/<n>.class.err for java,
\* nothing that diff() reads for valgrind
Captured ==
    CASE child.kind = "subject" ->
           {[temp EXCEPT ![test] = [@ EXCEPT !["out"] = o, !["err"] = e]] :
                o \in Written, e \in Written}
      [] child.kind = "java" ->
           {[temp EXCEPT ![test] = [@ EXCEPT !["class.out"] = o, !["class.err"] = e]] :
                o \in Written, e \in Written}
      [] OTHER -> {temp}

\* `return r` of process_handler; timedOut: the first wait raised TimeoutExpired
Return(r, timedOut) ==
    /\ phase' = "returned"
    /\ ret' = r
    /\ trace' = Finish(trace, r, timedOut)
    /\ temp' \in Captured
    /\ clean' = (clean /\ r # -1 /\ (child.kind = "java" => r = 0))

\* the members of the group other than the child, after a signal to the group
Survivors == IF child.others THEN BOOLEAN ELSE {FALSE}

\* process.wait(timeout) returns: return process.returncode
process_handler_exit ==
    /\ InHandler /\ phase = "wait1"
    /\ \E returncode \in ExitCodes(child.kind) :
          /\ child' = [child EXCEPT !.alive = FALSE, !.returncode = returncode]
          /\ Return(returncode, FALSE)
    /\ UNCHANGED <<config, build, results, pc, idx, failed, passedLog, perc, signals, di, passed, error>>

\* faulty variant of process_handler_sigterm: the first signal is already SIGKILL
process_handler_sigterm_kills ==
    /\ InHandler /\ phase = "wait1"
    /\ child.alive
    /\ signals' = Append(signals, "SIGKILL")
    /\ phase' = "wait2"
    /\ UNCHANGED <<config, build, results, pc, idx, failed, passedLog, perc, child, ret, temp, di,
                   passed, trace, error, clean>>

\* TimeoutExpired: os.killpg(os.getpgid(process.pid), signal.SIGTERM)
process_handler_sigterm ==
    /\ InHandler /\ phase = "wait1"
    /\ child.alive
    /\ signals' = Append(signals, "SIGTERM")
    /\ phase' = "wait2"
    /\ UNCHANGED <<config, build, results, pc, idx, failed, passedLog, perc, child, ret, temp, di,
                   passed, trace, error, clean>>

\* the wait after SIGTERM returns: fall through to `return -1`
process_handler_terminated ==
    /\ InHandler /\ phase = "wait2"
    /\ \E others \in Survivors :
          child' = [child EXCEPT !.alive = FALSE, !.returncode = -15, !.others = others]
    /\ Return(-1, TRUE)
    /\ UNCHANGED <<config, build, results, pc, idx, failed, passedLog, perc, signals, di, passed, error>>

\* TimeoutExpired again: os.killpg(os.getpgid(process.pid), signal.SIGKILL)
process_handler_sigkill ==
    /\ InHandler /\ phase = "wait2"
    /\ child.alive
    /\ signals' = Append(signals, "SIGKILL")
    /\ phase' = "wait3"
    /\ UNCHANGED <<config, build, results, pc, idx, failed, passedLog, perc, child, ret, temp, di,
                   passed, trace, error, clean>>

\* the wait after SIGKILL returns: fall through to `return -1`
process_handler_killed ==
    /\ InHandler /\ phase = "wait3"
    /\ \E others \in Survivors :
          child' = [child EXCEPT !.alive = FALSE, !.returncode = -9, !.others = others]
    /\ Return(-1, TRUE)
    /\ UNCHANGED <<config, build, results, pc, idx, failed, passedLog, perc, signals, di, passed, error>>

\* faulty variant of process_handler_raise: the third TimeoutExpired is swallowed and
\* the handler returns -1 like an ordinary timeout
process_handler_raise_swallowed ==
    /\ InHandler /\ phase = "wait3"
    /\ child.alive
    /\ child' = child
    /\ Return(-1, TRUE)
    /\ UNCHANGED <<config, build, results, pc, idx, failed, passedLog, perc, signals, di, passed, error>>

\* TimeoutExpired a third time: raise Exception(...), which nothing catches
process_handler_raise ==
    /\ InHandler /\ phase = "wait3"
    /\ child.alive
    /\ phase' = "raised"
    /\ pc' = "crashed"
    /\ error' = "Exception"
    /\ UNCHANGED <<config, build, results, idx, failed, passedLog, perc, child, ret, signals, temp, di,
                   passed, trace, clean>>

(***************************************************************************)
(* The return values of execute, execute_class and mem_check.              *)
(***************************************************************************)
\* faulty variant of BaseTest_execute: a non-zero exit code fails the execution
BaseTest_execute_nonzero_fails(r) == r = 0

\* BaseTest.execute / RedirectionBaseTest.execute: False iff process_handler
\* returned -1
BaseTest_execute(r) == r # -1

\* CodegenTest.execute_class: False iff process_handler did not return 0
execute_class(r) == r = 0

\* BaseTest.mem_check / RedirectionBaseTest.mem_check: False iff
\* process_handler returned -1
mem_check(r) == r # -1

\* CodegenTest.execute goes on to execute_class
RunsClass == class = "CodegenTest" /\ BaseTest_execute(ret) /\ flags["exec-class"]

\* what execute returns when it does not go on to execute_class:
\* CodegenTest.execute returns True also when super().execute returned False
execute ==
    IF class = "CodegenTest" THEN TRUE ELSE BaseTest_execute(ret)

(***************************************************************************)
(* BaseTest.test after execute returned: `failed.append(test); continue`,  *)
(* or on to diff.                                                          *)
(***************************************************************************)
after_execute(ok) ==
    /\ child' = NoChild
    /\ phase' = "idle"
    /\ ret' = 0
    /\ di' = 0
    /\ passed' = TRUE
    /\ IF ok
       THEN pc' = "diff" /\ failed' = failed
       ELSE pc' = "loop" /\ failed' = Append(failed, test)
    /\ UNCHANGED <<config, build, results, idx, passedLog, perc, signals, temp, trace, error, clean>>

execute_returns ==
    /\ pc = "execute" /\ phase = "returned"
    /\ ~RunsClass
    /\ after_execute(execute)

\* CodegenTest.execute: return self.execute_class(test), up to its Popen
execute_class_spawn ==
    /\ pc = "execute" /\ phase = "returned"
    /\ RunsClass
    /\ \E others \in BOOLEAN : child' = Popen("java", others)
    /\ phase' = "wait1"
    /\ ret' = 0
    /\ signals' = <<>>
    /\ trace' = Append(trace, Spawned("java", ""))
    /\ pc' = "execute_class"
    /\ UNCHANGED <<config, build, results, idx, failed, passedLog, perc, temp, di, passed, error, clean>>

execute_class_returns ==
    /\ pc = "execute_class" /\ phase = "returned"
    /\ after_execute(execute_class(ret))

(***************************************************************************)
(* BaseTest.diff: one iteration of `for output_type in self.DIFF_FILES`    *)
(* (Popen of diff, wait, returncode).                                      *)
(***************************************************************************)
\* faulty variant of diff_one: the loop is left at the first mismatch
diff_one_break ==
    /\ pc = "diff"
    /\ di < Len(DIFF_FILES)
    /\ LET output_type == DIFF_FILES[di + 1]
           returncode  == DiffExit(temp[test][output_type])
       IN  /\ trace' = Append(trace, [Spawned("diff", output_type) EXCEPT
                                         !.done = TRUE, !.ret = returncode])
           /\ passed' = IF returncode # 0 THEN FALSE ELSE passed
           /\ clean' = (clean /\ returncode = 0)
           /\ di' = IF returncode # 0 THEN Len(DIFF_FILES) ELSE di + 1
    /\ UNCHANGED <<config, build, results, pc, idx, failed, passedLog, perc, child, phase, ret, signals,
                   temp, error>>

diff_one ==
    /\ pc = "diff"
    /\ di < Len(DIFF_FILES)
    /\ LET output_type == DIFF_FILES[di + 1]
           returncode  == DiffExit(temp[test][output_type])
       IN  /\ trace' = Append(trace, [Spawned("diff", output_type) EXCEPT
                                         !.done = TRUE, !.ret = returncode])
           /\ passed' = IF returncode # 0 THEN FALSE ELSE passed
           /\ clean' = (clean /\ returncode = 0)
    /\ di' = di + 1
    /\ UNCHANGED <<config, build, results, pc, idx, failed, passedLog, perc, child, phase, ret, signals,
                   temp, error>>

\* failed after `if not self.diff(test): failed.append(test)`
\* faulty variant of after_diff: the failed case is put at the head of the list
after_diff_prepend == IF passed THEN failed ELSE <<test>> \o failed

after_diff == IF passed THEN failed ELSE Append(failed, test)

\* `if test not in failed: logging.info("<test>: Passed")`
verdict(f) == IF InList(test, f) THEN passedLog ELSE Append(passedLog, test)

\* faulty variant of mem_check_spawn: the memory check is started before the diff
mem_check_spawn_before_diff ==
    /\ pc = "diff"
    /\ di = 0
    /\ flags["memory-check"]
    /\ failed' = failed
    /\ \E others \in BOOLEAN : child' = Popen("valgrind", others)
    /\ phase' = "wait1"
    /\ signals' = <<>>
    /\ trace' = Append(trace, Spawned("valgrind", ""))
    /\ pc' = "mem_check"
    /\ UNCHANGED <<config, build, results, idx, passedLog, perc, ret, temp, di, passed, error, clean>>

\* diff returns and the memory check is on: the Popen of mem_check
mem_check_spawn ==
    /\ pc = "diff"
    /\ di = Len(DIFF_FILES)
    /\ flags["memory-check"]
    /\ failed' = after_diff
    /\ \E others \in BOOLEAN : child' = Popen("valgrind", others)
    /\ phase' = "wait1"
    /\ signals' = <<>>
    /\ trace' = Append(trace, Spawned("valgrind", ""))
    /\ pc' = "mem_check"
    /\ UNCHANGED <<config, build, results, idx, passedLog, perc, ret, temp, di, passed, error, clean>>

\* diff returns and the memory check is off: the end of the iteration
diff_returns ==
    /\ pc = "diff"
    /\ di = Len(DIFF_FILES)
    /\ ~flags["memory-check"]
    /\ failed' = after_diff
    /\ passedLog' = verdict(after_diff)
    /\ pc' = "loop"
    /\ UNCHANGED <<config, build, results, idx, perc, child, phase, ret, signals, temp, di, passed,
                   trace, error, clean>>

\* faulty variant of after_mem_check: the case is appended whether or not it is
\* in the list already
after_mem_check_again(ok) ==
    IF ~ok THEN Append(failed, test) ELSE failed

\* failed after `if not self.mem_check(test): failed.append(test) if test not in
\* failed else None`
after_mem_check(ok) ==
    IF ~ok /\ ~InList(test, failed) THEN Append(failed, test) ELSE failed

mem_check_returns ==
    /\ pc = "mem_check" /\ phase = "returned"
    /\ failed' = after_mem_check(mem_check(ret))
    /\ passedLog' = verdict(after_mem_check(mem_check(ret)))
    /\ child' = NoChild
    /\ phase' = "idle"
    /\ ret' = 0
    /\ pc' = "loop"
    /\ UNCHANGED <<config, build, results, idx, perc, signals, temp, di, passed, trace, error, clean>>

(***************************************************************************)
(* BaseTest.test after the loop: the pass rate and the clean-up.           *)
(***************************************************************************)
\* faulty variant of Percent: the share of the failed cases
Percent_of_failed(nfailed, total) == (2 * 10000 * nfailed + total) \div (2 * total)

\* round((1 - len(failed)/len(test_names)) * 100, 2), in hundredths of a percent
Percent(nfailed, total) == (2 * 10000 * (total - nfailed) + total) \div (2 * total)

report ==
    /\ pc = "loop"
    /\ idx = Len(test_names)
    /\ Len(test_names) > 0
    /\ perc' = <<Percent(Len(failed), Len(test_names))>>
    /\ pc' = "done"
    /\ UNCHANGED <<config, build, results, idx, failed, passedLog, child, phase, ret, signals, temp, di,
                   passed, trace, error, clean>>

(***************************************************************************)
(* BaseTest.clean: shutil.rmtree(temp) when no results path was given,     *)
(* shutil.move(temp, results_dir) otherwise; an exception is logged as a   *)
(* warning.                                                                *)
(***************************************************************************)
\* what is at the results path when clean() is called: nothing, a directory,
\* a directory that holds an entry named temp
ResultsBefore == {"absent", "dir", "dir/temp"}

\* shutil.move(src, dst) of the directory temp: os.rename(src, dst) when dst
\* does not exist; when dst is a directory, the destination is
\* dst/basename(src), and shutil.Error is raised if that exists
move(dst, before) ==
    CASE before = "absent" ->
           [results_dir |-> dst, old |-> FALSE, top |-> TRUE, sub |-> FALSE, raised |-> FALSE]
      [] before = "dir" ->
           [results_dir |-> dst, old |-> TRUE, top |-> FALSE, sub |-> TRUE, raised |-> FALSE]
      [] before = "dir/temp" ->
           [results_dir |-> dst, old |-> TRUE, top |-> FALSE, sub |-> FALSE, raised |-> TRUE]

BaseTest_clean ==
    /\ pc = "done"
    /\ \E results_dir \in {"", "results"} :
          IF results_dir = ""
          THEN results' = NoResults /\ temp' = NoTemp
          ELSE \E before \in ResultsBefore :
                  /\ results' = move(results_dir, before)
                  /\ temp' = IF results'.raised THEN temp ELSE NoTemp
    /\ pc' = "cleaned"
    /\ UNCHANGED <<config, build, idx, failed, passedLog, perc, child, phase, ret,
                   signals, di, passed, trace, error, clean>>

\* len(self._test_names) == 0: the division raises ZeroDivisionError
report_raise ==
    /\ pc = "loop"
    /\ idx = Len(test_names)
    /\ Len(test_names) = 0
    /\ pc' = "crashed"
    /\ error' = "ZeroDivisionError"
    /\ UNCHANGED <<config, build, results, idx, failed, passedLog, perc, child, phase, ret, signals,
                   temp, di, passed, trace, clean>>

Next ==
    \/ make_clean
    \/ make
    \/ execute_spawn
    \/ process_handler_exit
    \/ process_handler_sigterm
    \/ process_handler_terminated
    \/ process_handler_sigkill
    \/ process_handler_killed
    \/ process_handler_raise
    \/ execute_returns
    \/ execute_class_spawn
    \/ execute_class_returns
    \/ diff_one
    \/ mem_check_spawn
    \/ diff_returns
    \/ mem_check_returns
    \/ report
    \/ BaseTest_clean
    \/ report_raise

Spec == Init /\ [][Next]_vars

(***************************************************************************)
(* The same run with what else can happen to it: the operator's SIGINT     *)
(* while process_handler waits, and a make or diff process that never      *)
(* exits.                                                                  *)
(***************************************************************************)
\* the harness has stopped: test() has returned or the interpreter has exited
Stopped == pc \in {"build_failed", "cleaned", "crashed", "exited", "blocked"}

\* handle_keyboard_interrupt, called while process.wait blocks: two warnings
\* are logged and sys.exit(0) ends the harness.  The child was started with
\* os.setsid: it is in a session of its own and nothing signals it.
handle_keyboard_interrupt ==
    /\ InHandler
    /\ phase \in {"wait1", "wait2", "wait3"}
    /\ pc' = "exited"
    /\ UNCHANGED <<config, build, results, idx, failed, passedLog, perc, child, phase, ret,
                   signals, temp, di, passed, trace, error, clean>>

\* clean_proc.wait() on a `make clean` that never exits
make_clean_blocks ==
    /\ pc = "make"
    /\ child' = Popen("make clean", FALSE)
    /\ pc' = "blocked"
    /\ UNCHANGED <<config, build, results, idx, failed, passedLog, perc, phase, ret, signals,
                   temp, di, passed, trace, error, clean>>

\* comp_proc.wait() on a `make <target>` that never exits
make_blocks ==
    /\ pc = "make_target"
    /\ child' = Popen("make", FALSE)
    /\ pc' = "blocked"
    /\ UNCHANGED <<config, build, results, idx, failed, passedLog, perc, phase, ret, signals,
                   temp, di, passed, trace, error, clean>>

\* diff_proc.wait() on a diff that never exits
diff_blocks ==
    /\ pc = "diff"
    /\ di < Len(DIFF_FILES)
    /\ child' = Popen("diff", FALSE)
    /\ trace' = Append(trace, Spawned("diff", DIFF_FILES[di + 1]))
    /\ pc' = "blocked"
    /\ UNCHANGED <<config, build, results, idx, failed, passedLog, perc, phase, ret, signals,
                   temp, di, passed, error, clean>>

NextEnv ==
    \/ Next
    \/ handle_keyboard_interrupt
    \/ make_clean_blocks
    \/ make_blocks
    \/ diff_blocks

SpecEnv == Init /\ [][NextEnv]_vars

(***************************************************************************)
(* The making of the case list, from the command line to the construction  *)
(* of the test object: parse_args, then the discovery of test_runner.      *)
(***************************************************************************)
\* numbers of the fixture cases and of the explicit case arguments: one and
\* two digits, so that numeric and alphabetic order differ
Numbers == {2, 10}

\* the files of a module directory: <n>.in, <n>.class.in, <n>.out
Files == {str(n) \o ext : n \in Numbers,
                          ext \in {DotIn, Dot \o Class \o DotIn, <<".", "o", "u", "t">>}}

\* os.listdir: the files present, in arbitrary order
Listings ==
    {l \in SeqsUpTo(Files, MaxListing) : \A i, j \in 1..Len(l) : i # j => l[i] # l[j]}

\* args['<tests>']: nothing, numbers, or one range a..b
ArgLists ==
    SeqsUpTo({str(n) : n \in Numbers}, MaxCases)
    \cup {<<str(a) \o DotDot \o str(b)>> : a, b \in 0..MaxArg}

InitCases ==
    /\ module = "scanner"
    /\ flags = [f \in {"memory-check", "exec-class"} |-> FALSE]
    /\ DIFF_FILES = diff_stream("both", FALSE)
    /\ test_args \in ArgLists
    /\ listing \in Listings
    /\ test_names = <<>>
    /\ build = <<>>
    /\ results = NoResults
    /\ pc = "parse_args"
    /\ idx = 0
    /\ failed = <<>>
    /\ passedLog = <<>>
    /\ perc = <<>>
    /\ child = NoChild
    /\ phase = "idle"
    /\ ret = 0
    /\ signals = <<>>
    /\ temp = [c \in CaseIds |-> [s \in AllStreams |-> "absent"]]
    /\ di = 0
    /\ passed = TRUE
    /\ trace = <<>>
    /\ error = "none"
    /\ clean = TRUE

\* main: modules, cases = parse_args(args)
parse_args ==
    /\ pc = "parse_args"
    /\ test_names' = cases(test_args)
    /\ pc' = "test_runner"
    /\ UNCHANGED <<module, flags, DIFF_FILES, test_args, listing, build, results, idx, failed,
                   passedLog, perc, child, phase, ret, signals, temp, di, passed,
                   trace, error, clean>>

\* test_runner, up to the construction of the test object
test_runner ==
    /\ pc = "test_runner"
    /\ test_names' = test_cases(test_names, listing)
    /\ pc' = "constructed"
    /\ UNCHANGED <<module, flags, DIFF_FILES, test_args, listing, build, results, idx, failed,
                   passedLog, perc, child, phase, ret, signals, temp, di, passed,
                   trace, error, clean>>

NextCases == parse_args \/ test_runner

SpecCases == InitCases /\ [][NextCases]_vars

(***************************************************************************)
(* Properties.                                                             *)
(***************************************************************************)
IsDiff(e) == e.kind = "diff"

\* the diff processes run for the current case, in order
DiffRuns == SelectSeq(trace, IsDiff)

\* the last child process spawned for the current case
Last == trace[Len(trace)]

\* the iteration of the for loop over test_names[idx] has ended
CaseOver == pc = "loop" /\ idx > 0

\* the current case was not run earlier in this suite run
FirstRun == \A j \in 1..(idx - 1) : test_names[j] # test

\* execute(test) returned True for the current case, read off the processes run
ExecuteTrue ==
    /\ class # "CodegenTest" => trace[1].ret # -1
    /\ \A j \in 1..Len(trace) : trace[j].kind = "java" => trace[j].ret = 0

\* C1: in process_handler a signal is sent only to a child that is alive after
\* a wait that timed out: SIGTERM first, after the first wait; SIGKILL only
\* after SIGTERM and the wait that follows it; the fatal exception only after
\* SIGTERM, SIGKILL and the wait that follows SIGKILL.  A child that exited
\* within the timeout has been sent no signal.
C1_Escalation ==
    [][ /\ (signals' # signals /\ signals' # <<>>) =>
             /\ child.alive
             /\ \/ phase = "wait1" /\ signals = <<>> /\ signals' = <<"SIGTERM">>
                \/ /\ phase = "wait2" /\ signals = <<"SIGTERM">>
                   /\ signals' = <<"SIGTERM", "SIGKILL">>
        /\ (phase = "wait1" /\ ~child'.alive) => signals' = <<>>
        /\ (error = "none" /\ error' = "Exception") =>
             phase = "wait3" /\ child.alive /\ signals = <<"SIGTERM", "SIGKILL">>
      ]_vars

C1_Witness ==
    error = "Exception" /\ child.alive /\ signals = <<"SIGTERM", "SIGKILL">>

\* C2: when process_handler returns for a subject that outlived the timeout, it
\* returns -1 and neither the child nor any other member of its process group
\* is alive.
C2_NoSurvivors ==
    (InHandler /\ phase = "returned" /\ child.kind = "subject" /\ Last.timedOut)
        => (ret = -1 /\ ~child.alive /\ ~child.others)

\* C3: a child that is alive when the wait after SIGKILL is over ends the run
\* with the uncaught exception: the step records no failure and no pass, and
\* after it the harness takes no further step (no spawn, no later case).
C3_UnkillableAborts ==
    [][ /\ (phase = "wait3" /\ phase' # "wait3" /\ child'.alive) =>
             /\ pc' = "crashed" /\ error' = "Exception"
             /\ failed' = failed /\ passedLog' = passedLog /\ trace' = trace
        /\ error = "Exception" => vars' = vars
      ]_vars

C3_Witness ==
    /\ pc = "crashed" /\ error = "Exception" /\ child.alive
    /\ idx < Len(test_names)
    /\ ~InList(test, failed)

\* C4: with the memory check on, a case whose valgrind run returned 255 is in
\* the failure list when its iteration ends.
C4_LeakFails ==
    (CaseOver /\ flags["memory-check"] /\ Last.kind = "valgrind" /\ Last.ret = 255)
        => InList(test, failed)

\* C5 as stated: with the memory check on, a diff process is started only
\* after the memory check of the case has completed.
C5_MemCheckBeforeDiff ==
    \A i \in 1..Len(trace) :
        (flags["memory-check"] /\ trace[i].kind = "diff")
            => \E j \in 1..(i - 1) : trace[j].kind = "valgrind" /\ trace[j].done

\* C5 amended: the order is execute, diff, memory check.  A diff process is
\* started only after execute returned True; the memory check is started only
\* when enabled, only after execute returned True and after the diff process
\* of every configured stream has completed, and it is the last process of the
\* case; it runs whatever the outcome of the diff was.
C5_ExecuteDiffMemCheck ==
    /\ trace # <<>> => trace[1].kind = "subject"
    /\ \A i \in 1..Len(trace) :
          trace[i].kind = "diff" =>
             /\ ExecuteTrue
             /\ \A j \in 1..(i - 1) :
                   trace[j].done /\ trace[j].kind \in {"subject", "java", "diff"}
    /\ \A i \in 1..Len(trace) :
          trace[i].kind = "valgrind" =>
             /\ flags["memory-check"]
             /\ ExecuteTrue
             /\ i = Len(trace)
             /\ Len(DiffRuns) = Len(DIFF_FILES)
             /\ \A k \in 1..Len(DiffRuns) : DiffRuns[k].done
    /\ (CaseOver /\ flags["memory-check"] /\ DiffRuns # <<>>) =>
          Last.kind = "valgrind" /\ Last.done

C5_Witness ==
    /\ CaseOver /\ Last.kind = "valgrind" /\ Last.done
    /\ \E k \in 1..Len(DiffRuns) : DiffRuns[k].ret # 0

\* no child of the current case ended by itself with return code -1, the value
\* process_handler also returns for a timeout
NoSignalDeath == \A i \in 1..Len(trace) : trace[i].ret = -1 => trace[i].timedOut

\* C6: when the iteration of a case ends, a diff process has been run for
\* every configured stream (stated for the cases none of whose children ended
\* by itself with return code -1).
C6_AlwaysDiffed ==
    (CaseOver /\ NoSignalDeath) =>
        \A k \in 1..Len(DIFF_FILES) :
            \E i \in 1..Len(trace) :
                trace[i].kind = "diff" /\ trace[i].stream = DIFF_FILES[k]

\* C7: diff runs one diff process per entry of DIFF_FILES, in order, also after
\* a mismatch; each returns what diff returns for that file, and passed is True
\* iff every one of them returned 0; a case whose diff ran ends with one
\* process per entry.
C7_DiffEveryStream ==
    /\ pc = "diff" =>
          /\ Len(DiffRuns) = di
          /\ \A k \in 1..di :
                /\ DiffRuns[k].stream = DIFF_FILES[k]
                /\ DiffRuns[k].ret = DiffExit(temp[test][DIFF_FILES[k]])
          /\ passed = (\A k \in 1..di : DiffRuns[k].ret = 0)
    /\ (CaseOver /\ DiffRuns # <<>>) =>
          /\ Len(DiffRuns) = Len(DIFF_FILES)
          /\ (\E k \in 1..Len(DiffRuns) : DiffRuns[k].ret # 0) => InList(test, failed)

C7_Witness ==
    /\ pc = "diff" /\ di = Len(DIFF_FILES) /\ di >= 2
    /\ DiffRuns[1].ret # 0 /\ DiffRuns[di].ret = 0
    /\ ~passed

\* C8: a case whose primary subject run outlived the timeout is in the failure
\* list when its iteration ends.
C8_TimeoutFails ==
    (CaseOver /\ trace[1].timedOut) => InList(test, failed)

\* every file of temp/ written for a case of the list is identical to its
\* golden file
AllCapturedSame ==
    \A i \in 1..Len(test_names) : \A s \in AllStreams : temp[test_names[i]][s] # "differs"

EndedInTime == \A i \in 1..Len(trace) : ~trace[i].timedOut /\ trace[i].ret # -1

\* C10 as stated, without the memory check: a case none of whose processes
\* timed out is judged by its streams alone; it fails iff the file of some
\* configured stream is not identical to its golden file.
C10_JudgedByStreamsAlone ==
    (CaseOver /\ FirstRun /\ ~flags["memory-check"] /\ EndedInTime) =>
        (InList(test, failed) <=> \E k \in 1..Len(DIFF_FILES) : temp[test][DIFF_FILES[k]] # "same")

\* C10 amended: the return code of the primary subject decides the verdict
\* only through the value -1 (and then not for codegen); the return code of
\* the second-stage run decides it: non-zero fails the case.  A case run for
\* the first time fails iff process_handler returned -1 for the subject (not
\* codegen), or the second-stage run returned non-zero, or a diff process
\* returned non-zero, or process_handler returned -1 for the memory check.
C10_PrimaryExitCodeIgnored ==
    (CaseOver /\ FirstRun) =>
        (InList(test, failed) <=>
            \/ class # "CodegenTest" /\ trace[1].ret = -1
            \/ \E i \in 1..Len(trace) : trace[i].kind = "java" /\ trace[i].ret # 0
            \/ \E i \in 1..Len(trace) : trace[i].kind = "diff" /\ trace[i].ret # 0
            \/ \E i \in 1..Len(trace) : trace[i].kind = "valgrind" /\ trace[i].ret = -1)

C10_Witness ==
    /\ CaseOver /\ FirstRun
    /\ trace[1].ret = 1 /\ ~trace[1].timedOut
    /\ ~InList(test, failed)

\* C11: make() runs `make clean`, then `make <target>`, and the build succeeds
\* exactly when the target's process returned 0.  After a failed build the
\* suite has ended with no case executed: no child process was spawned, no
\* file of temp/ was written, no case is in the failed or passed lists and no
\* pass percentage was reported; the run is in the state of its own, reached
\* by logging "Failed to Make Tester".
C11_BuildFailureAborts ==
    /\ pc \in {"make", "make_target"} => build = <<>>
    /\ build # <<>> => (pc = "build_failed" <=> build[1] # 0)
    /\ pc = "build_failed" =>
          /\ build # <<>>
          /\ idx = 0
          /\ trace = <<>>
          /\ child = NoChild
          /\ signals = <<>>
          /\ \A c \in CaseIds, s \in AllStreams : temp[c][s] = "absent"
          /\ failed = <<>>
          /\ passedLog = <<>>
          /\ perc = <<>>
          /\ error = "none"

C11_Witness == pc = "build_failed" /\ build = <<2>> /\ Len(test_names) > 0

\* C12: once the build has succeeded, the run stops only with every case of
\* the list executed and the aggregate report produced, or with the fatal
\* exception of a child that could not be killed.
C12_SuiteRunsToReport ==
    (build = <<0>> /\ Stopped) =>
        \/ pc = "cleaned" /\ idx = Len(test_names) /\ perc # <<>>
        \/ error = "Exception"

\* l is ascending
Ascending(l) == \A i, j \in 1..Len(l) : i < j => l[i] <= l[j]

\* C13 as stated: the cases executed so far were taken in ascending order of
\* their identifiers, and the failure list is ascending, however the list was
\* given.
C13_AscendingOrder == Ascending(SubSeq(test_names, 1, idx)) /\ Ascending(failed)

\* C13: the case list of explicit arguments is the list of their numbers in
\* the order given; the loop takes the cases one at a time in the order of the
\* list, each starting with a fresh subject process; a case enters the failure
\* list only while it is the current case and at the end of the list, so the
\* failure list is a sub-list of the executed cases in execution order.
C13_ListOrder ==
    /\ [](/\ Len(test_args) > 0 =>
               /\ Len(test_names) = Len(test_args)
               /\ \A i \in 1..Len(test_args) : test_args[i] = str(test_names[i])
           /\ \E f \in [1..Len(failed) -> 1..idx] :
                 /\ \A k \in 1..Len(failed) : failed[k] = test_names[f[k]]
                 /\ \A k, l \in 1..Len(failed) : k < l => f[k] <= f[l])
    /\ [][idx' # idx =>
             /\ idx' = idx + 1
             /\ pc' = "execute"
             /\ trace' = <<Spawned("subject", "")>>]_vars
    /\ [][failed' # failed =>
             /\ idx' = idx
             /\ failed' = Append(failed, test_names[idx])]_vars

C13_Witness ==
    /\ pc = "done"
    /\ test_args = <<str(2), str(1)>>
    /\ test_names = <<2, 1>>
    /\ failed = <<2, 1>>

\* C14: for the single argument "a..b" with a <= b, the case list parse_args
\* returns, and test_runner hands to the test object, is a, a+1, ..., b: both
\* ends included, ascending, nothing missing and nothing added.
C14_RangeInclusive ==
    pc \in {"test_runner", "constructed"} =>
        \A a, b \in 0..MaxArg :
            (a <= b /\ test_args = <<str(a) \o DotDot \o str(b)>>) =>
                test_names = [i \in 1..(b - a + 1) |-> a + i - 1]

C14_Witness ==
    /\ pc = "constructed"
    /\ test_args = << <<"3", ".", ".", "7">> >>
    /\ test_names = <<3, 4, 5, 6, 7>>

C16_InterruptKillsChildren ==
    pc = "exited" => signals # <<>> /\ ~child.alive /\ ~child.others

\* C17: the harness is never in a wait that no timeout bounds, on a child
\* that never exits.
C17_EveryWaitBounded == ~(pc = "blocked" /\ child.alive)

\* C18: a memory check that ended within the timeout with an exit code other
\* than 255 does not fail the case: a case run for the first time, whose diff
\* processes all returned 0 and whose memory check ended so, is not in the
\* failure list when its iteration ends.
C18_OnlyLeakCodeFails ==
    (/\ CaseOver
     /\ FirstRun
     /\ Last.kind = "valgrind"
     /\ ~Last.timedOut
     /\ Last.ret # 255
     /\ \A k \in 1..Len(DiffRuns) : DiffRuns[k].ret = 0)
    => ~InList(test, failed)

\* number of times x is in list
Count(x, list) == Cardinality({i \in 1..Len(list) : list[i] = x})

\* C19 as stated: once a memory check has exceeded the timeout and
\* process_handler is over, by a return or by its exception, the case is in
\* the failure list exactly once.
C19_TimedOutCheckFailsOnce ==
    (\/ CaseOver /\ Last.kind = "valgrind" /\ Last.timedOut
     \/ pc = "crashed" /\ child.kind = "valgrind" /\ signals # <<>>)
    => Count(test, failed) = 1

\* C19: a memory check that exceeded the timeout and was terminated got
\* SIGTERM, then SIGKILL if it outlived that too, as a subject does;
\* process_handler returned -1 for it; when the iteration ends the case is in
\* the failure list, whatever its diff processes returned, and it is there no
\* more often than the case was executed: exactly once for a case run for the
\* first time.
C19_TimedOutCheckRecorded ==
    (CaseOver /\ Last.kind = "valgrind" /\ Last.timedOut) =>
        /\ signals \in {<<"SIGTERM">>, <<"SIGTERM", "SIGKILL">>}
        /\ Last.ret = -1
        /\ InList(test, failed)
        /\ Count(test, failed) <= Count(test, SubSeq(test_names, 1, idx))
        /\ FirstRun => Count(test, failed) = 1

C19_Witness ==
    /\ CaseOver
    /\ Last.kind = "valgrind"
    /\ Last.timedOut
    /\ signals = <<"SIGTERM", "SIGKILL">>
    /\ \E k \in 1..Len(DiffRuns) : DiffRuns[k].ret # 0
    /\ FirstRun
    /\ Count(test, failed) = 1

\* C20: a diff process compares a second-stage stream (class.out, class.err)
\* only when the module is codegen and the second stage is enabled; for every
\* other module, under every flag setting, only out and err are compared.
C20_ClassStreamsOnlyForCodegen ==
    \A k \in 1..Len(DiffRuns) :
        DiffRuns[k].stream \in {"class.out", "class.err"} =>
            class = "CodegenTest" /\ flags["exec-class"]

\* no stage of the current execution of the current case failed: execute
\* returned True, every diff process returned 0 and mem_check, if run, returned
\* True
StagesPassed ==
    /\ ExecuteTrue
    /\ \A j \in 1..Len(trace) :
          /\ trace[j].kind = "diff" => trace[j].ret = 0
          /\ trace[j].kind = "valgrind" => trace[j].ret # -1

\* C21: at the end of every iteration of the loop, the case is logged as
\* passed exactly when no stage of this execution of it failed, also when the
\* case was executed before in the same run.
C21_PassedIffNoStageFailed ==
    [][(pc # "loop" /\ pc' = "loop" /\ idx > 0) =>
           IF StagesPassed'
           THEN passedLog' = Append(passedLog, test)
           ELSE passedLog' = passedLog]_vars

\* C22: when clean() has run with a results path given, the path holds the
\* files of this run's temp directory directly under it and nothing else: a
\* directory that was at the path has been replaced, and temp/ is gone.
C22_SaveReplaces ==
    (pc = "cleaned" /\ results.results_dir # "") =>
        /\ results.top
        /\ ~results.old
        /\ ~results.sub
        /\ ~results.raised
        /\ temp = NoTemp

\* C23: in the codegen module the second-stage runtime is started for a case
\* only after the subject of that case ended within the timeout with exit
\* code 0.
C23_SecondStageAfterSuccess ==
    \A j \in 1..Len(trace) :
        trace[j].kind = "java" =>
            trace[1].done /\ ~trace[1].timedOut /\ trace[1].ret = 0

\* C24: the wait that follows SIGTERM, at whose expiry SIGKILL is sent, blocks
\* for at most 1 second.
C24_GraceIsOneSecond ==
    (InHandler /\ phase = "wait2") => wait_timeout(phase) = 1

\* C25: process_handler returns -1 only for a child that did not exit within
\* the timeout.
C25_SentinelIffTimeout ==
    (InHandler /\ phase = "returned" /\ ret = -1) => Last.timedOut

\* C26: when a run whose build succeeded is over, it has not ended in the
\* division by zero; the failures are never more than the cases run; a
\* reported percentage is (1 - failures/total) * 100, in hundredths, between 0
\* and 100.
C26_PercentageDefined ==
    /\ error # "ZeroDivisionError"
    /\ Len(failed) <= idx
    /\ perc # <<>> =>
          /\ Len(test_names) > 0
          /\ 2 * Len(test_names) * perc[1] - Len(test_names)
                <= 2 * 10000 * (Len(test_names) - Len(failed))
          /\ 2 * 10000 * (Len(test_names) - Len(failed))
                <= 2 * Len(test_names) * perc[1] + Len(test_names)
          /\ 0 <= perc[1] /\ perc[1] <= 10000


=============================================================================
